---- MODULE Spec2Model ----
(***************************************************************************)
(* A model of the tsol-asm codec engine:                                   *)
(*   - the Writer (src/src/writer.rs): Units, write_command_bitstring,     *)
(*     write_composite_command, finalize;                                  *)
(*   - the idiom elaboration pass and the dictionary extractor             *)
(*     (src/src/disasm/codedict.rs);                                       *)
(*   - the Extract sub-command (src/src/bin/disasm.rs).                    *)
(*                                                                         *)
(* Bits are abstracted to tokens: a command written by one store_raw is    *)
(* one token [cmd, len] (the command's identity and its number of bits).   *)
(* A builder is its sequence of tokens and its sequence of child cells.    *)
(***************************************************************************)
EXTENDS Integers, Sequences, FiniteSets, TLC

VARIABLES
    units,      \* Units.units: the stack of Unit, head first
    phase,      \* "writing" | "finalizing" | "done" | "panicked"
    cursor,     \* finalize's local `cursor` (a Unit), <<>> outside finalize
    calls,      \* history: one record per write call, in call order
    prev,       \* history: the stack as it was before the last write call
    steps,      \* history: "inline" / "attach" per finalize iteration
    code,       \* the Code being elaborated (a tree of instructions)
    code0,      \* history: the Code as the Loader produced it
    stack,      \* traverse_code_tree's stack: paths of the Code nodes to visit
    pcE,        \* "loaded" | "traversing" | "elaborated"
    dict,       \* DelimitedHashmapE.dict: the dictionary's root cell
    entries,    \* the dictionary's (key, value) pairs in ascending key order
    map,        \* DelimitedHashmapE.map: the set of [path, id, offset], one per path
    marked,     \* number of keys mark() has been through
    pcM,        \* "new" | "marking" | "ok" | "not found" | "non-unique path"
    located,    \* history: the last locate call, [target, result]
    boc,        \* the container read by Extract: [pool, roots]
    extract     \* the last Extract command and its outcome

writerVars == <<units, phase, cursor, calls, prev, steps>>

elabVars == <<code, code0, stack, pcE>>

dictVars == <<dict, entries, map, marked, pcM, located>>

extractVars == <<boc, extract>>

vars == <<units, phase, cursor, calls, prev, steps, code, code0, stack, pcE,
          dict, entries, map, marked, pcM, located, boc, extract>>

\* The components a specification leaves out stay as they are here
WriterIdle ==
    /\ units = <<>> /\ phase = "idle" /\ cursor = <<>>
    /\ calls = <<>> /\ prev = <<>> /\ steps = <<>>

ElabIdle == code = <<>> /\ code0 = <<>> /\ stack = <<>> /\ pcE = "idle"

DictIdle ==
    /\ dict = <<>> /\ entries = <<>> /\ map = {}
    /\ marked = 0 /\ pcM = "idle" /\ located = <<>>

ExtractIdle == boc = <<>> /\ extract = <<>>

----------------------------------------------------------------------------
(* Bounds and input domains of the Writer model *)

\* Number of write calls in one run.
MaxWrites == 3

\* Bit counts offered to write_command_bitstring (1024 is one over capacity).
CmdBits == {8, 512, 1023, 1024}

\* Byte counts offered to write_composite_command / write_command.
CmdBytes == {1, 128}

\* Numbers of child subtrees offered to write_composite_command.
RefCounts == {0, 1, 3, 4, 5}

----------------------------------------------------------------------------
(* The cell substrate: capacity-bounded builders *)

MAX_BIT_LEN == 1023

MAX_REF_COUNT == 4

\* `x as u16`, `x as u8`
As_u16(n) == n % 65536

As_u8(n) == n % 256

RECURSIVE SumLen(_)
SumLen(data) ==
    IF data = <<>> THEN 0 ELSE data[1].len + SumLen(Tail(data))

EmptyBuilder == [data |-> <<>>, refs |-> <<>>]

size_bits(b) == SumLen(b.data)

size_refs(b) == Len(b.refs)

spare_capacity_refs(b) == MAX_REF_COUNT - Len(b.refs)

\* CellBuilder::store_raw: all of the bits or none
store_raw(b, cmd, bits) ==
    IF size_bits(b) + bits <= MAX_BIT_LEN
    THEN [ok |-> TRUE,
          builder |-> [b EXCEPT !.data = Append(@, [cmd |-> cmd, len |-> bits])]]
    ELSE [ok |-> FALSE, builder |-> b]

from_raw_data(cmd, bits) == store_raw(EmptyBuilder, cmd, bits)

\* CellBuilder::store_reference
store_reference(b, cell) ==
    IF Len(b.refs) < MAX_REF_COUNT
    THEN [ok |-> TRUE, builder |-> [b EXCEPT !.refs = Append(@, cell)]]
    ELSE [ok |-> FALSE, builder |-> b]

\* CellBuilder::store_slice: the slice's bits and references, or nothing
store_slice(b, cell) ==
    IF /\ size_bits(b) + size_bits(cell) <= MAX_BIT_LEN
       /\ Len(b.refs) + Len(cell.refs) <= MAX_REF_COUNT
    THEN [ok |-> TRUE,
          builder |-> [data |-> b.data \o cell.data, refs |-> b.refs \o cell.refs]]
    ELSE [ok |-> FALSE, builder |-> b]

\* CellBuilder::build: the finished cell holds the builder's bits and references
build(b) == [data |-> b.data, refs |-> b.refs]

----------------------------------------------------------------------------
(* DbgNode: offsets are pairs <<bit offset, command>> *)

EmptyDbg == [offsets |-> <<>>, children |-> <<>>]

ShiftOffsets(offs, by) == [i \in 1..Len(offs) |-> <<offs[i][1] + by, offs[i][2]>>]

inline_node(self, offset, dbg) ==
    [offsets  |-> self.offsets \o ShiftOffsets(dbg.offsets, offset),
     children |-> self.children \o dbg.children]

append_node(self, dbg) == [self EXCEPT !.children = Append(@, dbg)]

----------------------------------------------------------------------------
(* Unit and Units *)

Unit(builder, dbg) == [builder |-> builder, dbg |-> dbg]

\* Units::new
UnitsNew == <<Unit(EmptyBuilder, EmptyDbg)>>

\* checked_append_references: Ok(false) at the first reference that does not fit
RECURSIVE checked_append_references(_, _)
checked_append_references(b, refs) ==
    IF refs = <<>> THEN [ok |-> TRUE, builder |-> b]
    ELSE LET r == store_reference(b, build(refs[1]))
         IN IF r.ok THEN checked_append_references(r.builder, Tail(refs))
                    ELSE [ok |-> FALSE, builder |-> b]

\* A write_command_bitstring that reports Ok without opening a new cell when
\* the command does not fit the last one
write_command_bitstring_lossy(us, cmd, bits, dbg) ==
    LET n == Len(us)
        last == us[n]
        r == store_raw(last.builder, cmd, As_u16(bits))
    IN IF r.ok
       THEN [ok |-> TRUE,
             units |-> [us EXCEPT ![n] =
                           Unit(r.builder, inline_node(last.dbg, size_bits(last.builder), dbg))]]
       ELSE [ok |-> bits <= MAX_BIT_LEN, units |-> us]

\* Units::write_command_bitstring
write_command_bitstring(us, cmd, bits, dbg) ==
    LET n == Len(us)
        last == us[n]
        orig_offset == size_bits(last.builder)
        r == store_raw(last.builder, cmd, As_u16(bits))
        f == from_raw_data(cmd, As_u16(bits))
    IN IF n > 0 /\ r.ok
       THEN [ok |-> TRUE,
             units |-> [us EXCEPT ![n] =
                           Unit(r.builder, inline_node(last.dbg, orig_offset, dbg))]]
       ELSE IF f.ok
       THEN [ok |-> TRUE, units |-> Append(us, Unit(f.builder, dbg))]
       ELSE [ok |-> FALSE, units |-> us]

\* Units::write_command
write_command(us, cmd, bytes, dbg) == write_command_bitstring(us, cmd, bytes * 8, dbg)

\* An in-place attempt that keeps no reference slot in reserve
InPlace_no_reservation(last, cmd, bytes, references, dbg) ==
    LET orig_offset == size_bits(last.builder)
        r == store_raw(last.builder, cmd, As_u16(bytes * 8))
        a == checked_append_references(r.builder, references)
    IN IF /\ spare_capacity_refs(last.builder) >= As_u8(Len(references))
          /\ r.ok
          /\ a.ok
       THEN [ok |-> TRUE,
             unit |-> Unit(a.builder, inline_node(last.dbg, orig_offset, dbg))]
       ELSE [ok |-> FALSE, unit |-> last]

\* The in-place attempt of write_composite_command, made on a clone of the last Unit
InPlace(last, cmd, bytes, references, dbg) ==
    LET orig_offset == size_bits(last.builder)
        r == store_raw(last.builder, cmd, As_u16(bytes * 8))
        a == checked_append_references(r.builder, references)
    IN IF /\ spare_capacity_refs(last.builder) > As_u8(Len(references))
          /\ r.ok
          /\ a.ok
       THEN [ok |-> TRUE,
             unit |-> Unit(a.builder, inline_node(last.dbg, orig_offset, dbg))]
       ELSE [ok |-> FALSE, unit |-> last]

\* The fresh-cell attempt of write_composite_command
FreshCell(cmd, bytes, references, dbg) ==
    LET r == store_raw(EmptyBuilder, cmd, As_u16(bytes * 8))
        a == checked_append_references(r.builder, references)
    IN IF r.ok /\ a.ok
       THEN [ok |-> TRUE, unit |-> Unit(a.builder, dbg)]
       ELSE [ok |-> FALSE, unit |-> Unit(EmptyBuilder, EmptyDbg)]

\* Units::write_composite_command
write_composite_command(us, cmd, bytes, references, dbg) ==
    LET n == Len(us)
        p == InPlace(us[n], cmd, bytes, references, dbg)
        f == FreshCell(cmd, bytes, references, dbg)
    IN IF n > 0 /\ p.ok
       THEN [ok |-> TRUE, units |-> [us EXCEPT ![n] = p.unit]]
       ELSE IF f.ok
       THEN [ok |-> TRUE, units |-> Append(us, f.unit)]
       ELSE [ok |-> FALSE, units |-> us]

\* A finalize iteration that measures the destination after the append
Collapse_offset_after(destination, cur) ==
    LET cell == build(cur.builder)
        s == store_slice(destination.builder, cell)
        a == store_reference(destination.builder, cell)
    IN IF s.ok
       THEN [how |-> "inline",
             unit |-> Unit(s.builder,
                           inline_node(destination.dbg, size_bits(s.builder), cur.dbg))]
       ELSE IF a.ok
       THEN [how |-> "attach",
             unit |-> Unit(a.builder, append_node(destination.dbg, cur.dbg))]
       ELSE [how |-> "panic", unit |-> destination]

\* One iteration of finalize's loop: the cursor goes into the destination,
\* inlined when store_slice accepts it, attached as a reference otherwise;
\* store_reference(..).unwrap() panics when the destination has no free slot.
Collapse(destination, cur) ==
    LET orig_offset == size_bits(destination.builder)
        cell == build(cur.builder)
        s == store_slice(destination.builder, cell)
        a == store_reference(destination.builder, cell)
    IN IF s.ok
       THEN [how |-> "inline",
             unit |-> Unit(s.builder, inline_node(destination.dbg, orig_offset, cur.dbg))]
       ELSE IF a.ok
       THEN [how |-> "attach",
             unit |-> Unit(a.builder, append_node(destination.dbg, cur.dbg))]
       ELSE [how |-> "panic", unit |-> destination]

----------------------------------------------------------------------------
(* Inputs of the write calls *)

\* The debug node and the subtree builder of child j of command cmd
RefCmd(cmd, j) == cmd * 10 + j

RefBuilder(cmd, j) == [data |-> <<[cmd |-> RefCmd(cmd, j), len |-> 8]>>, refs |-> <<>>]

RefDbg(cmd, j) == [offsets |-> <<<<0, RefCmd(cmd, j)>>>>, children |-> <<>>]

References(cmd, k) == [j \in 1..k |-> RefBuilder(cmd, j)]

\* DbgNode::from_ext: one position at offset 0, one child per subtree
CmdDbg(cmd, k) == [offsets |-> <<<<0, cmd>>>>, children |-> [j \in 1..k |-> RefDbg(cmd, j)]]

----------------------------------------------------------------------------
(* The Writer as a state machine *)

InitWriter ==
    /\ units = UnitsNew
    /\ phase = "writing"
    /\ cursor = <<>>
    /\ calls = <<>>
    /\ prev = UnitsNew
    /\ steps = <<>>
    /\ ElabIdle /\ DictIdle /\ ExtractIdle

Record(op, cmd, bits, k, r) ==
    /\ units' = r.units
    /\ prev' = units
    /\ calls' = Append(calls, [op |-> op, cmd |-> cmd, bits |-> bits, refs |-> k, ok |-> r.ok])
    /\ UNCHANGED <<phase, cursor, steps>>
    /\ UNCHANGED <<elabVars, dictVars, extractVars>>

WriteCommandBitstring ==
    /\ phase = "writing"
    /\ Len(calls) < MaxWrites
    /\ \E bits \in CmdBits :
         LET cmd == Len(calls) + 1
         IN Record("bitstring", cmd, bits, 0,
                   write_command_bitstring(units, cmd, bits, CmdDbg(cmd, 0)))

WriteCommand ==
    /\ phase = "writing"
    /\ Len(calls) < MaxWrites
    /\ \E bytes \in CmdBytes :
         LET cmd == Len(calls) + 1
         IN Record("command", cmd, bytes * 8, 0,
                   write_command(units, cmd, bytes, CmdDbg(cmd, 0)))

WriteCompositeCommand ==
    /\ phase = "writing"
    /\ Len(calls) < MaxWrites
    /\ \E bytes \in CmdBytes, k \in RefCounts :
         LET cmd == Len(calls) + 1
         IN Record("composite", cmd, bytes * 8, k,
                   write_composite_command(units, cmd, bytes, References(cmd, k),
                                           CmdDbg(cmd, k)))

\* finalize: `let mut cursor = self.units.pop().expect(..)`
FinalizeBegin ==
    /\ phase = "writing"
    /\ Len(units) > 0
    /\ cursor' = units[Len(units)]
    /\ units' = SubSeq(units, 1, Len(units) - 1)
    /\ phase' = "finalizing"
    /\ UNCHANGED <<calls, prev, steps, elabVars, dictVars, extractVars>>

\* finalize: one iteration of `while let Some(mut destination) = self.units.pop()`
FinalizeStep ==
    /\ phase = "finalizing"
    /\ Len(units) > 0
    /\ LET c == Collapse(units[Len(units)], cursor)
       IN /\ units' = SubSeq(units, 1, Len(units) - 1)
          /\ steps' = Append(steps, c.how)
          /\ IF c.how = "panic"
             THEN phase' = "panicked" /\ UNCHANGED cursor
             ELSE cursor' = c.unit /\ UNCHANGED phase
    /\ UNCHANGED <<calls, prev, elabVars, dictVars, extractVars>>

\* finalize: the loop ends, `(cursor.builder, cursor.dbg)` is returned
FinalizeReturn ==
    /\ phase = "finalizing"
    /\ Len(units) = 0
    /\ phase' = "done"
    /\ UNCHANGED <<units, cursor, calls, prev, steps, elabVars, dictVars, extractVars>>

NextWriter ==
    \/ WriteCommandBitstring
    \/ WriteCommand
    \/ WriteCompositeCommand
    \/ FinalizeBegin
    \/ FinalizeStep
    \/ FinalizeReturn

SpecWriter == InitWriter /\ [][NextWriter]_vars

----------------------------------------------------------------------------
(* Properties of the Writer *)

RECURSIVE CellsOf(_)
CellsOf(cell) ==
    {cell} \cup UNION {CellsOf(cell.refs[i]) : i \in 1..Len(cell.refs)}

AllOk == \A i \in 1..Len(calls) : calls[i].ok

LastCall == calls[Len(calls)]

\* C1: after any sequence of write calls every Unit of the stack holds at most
\* 1023 bits and at most 3 references (one slot stays free for finalize), and
\* after finalize every produced cell holds at most 1023 bits and 4 references.
C1_CapacityInvariant ==
    /\ phase = "writing" =>
         \A i \in 1..Len(units) :
            /\ size_bits(units[i].builder) <= MAX_BIT_LEN
            /\ size_refs(units[i].builder) <= MAX_REF_COUNT - 1
    /\ phase = "done" =>
         \A c \in CellsOf(build(cursor.builder)) :
            /\ size_bits(c) <= MAX_BIT_LEN
            /\ size_refs(c) <= MAX_REF_COUNT

\* C2: write_composite_command returns NotFitInSlice exactly when the payload,
\* with one reference slot kept in reserve, does not fit an empty cell (more
\* than 1023 bits or more than 3 child references), and then pushes no Unit.
C2_NotFitExactly ==
    (phase = "writing" /\ calls # <<>> /\ LastCall.op = "composite") =>
        /\ ~LastCall.ok <=> (LastCall.bits > MAX_BIT_LEN \/ LastCall.refs > MAX_REF_COUNT - 1)
        /\ ~LastCall.ok => units = prev

\* C3: after successful writes finalize never fails: every iteration either
\* inlines or attaches, and it ends with exactly one (builder, debug) pair.
C3_FinalizeTotal ==
    AllOk =>
        /\ phase # "panicked"
        /\ \A i \in 1..Len(steps) : steps[i] \in {"inline", "attach"}
        /\ phase = "done" => (units = <<>> /\ cursor # <<>>)

\* The logical stream of a chain of cells: a cell's bits, then its child's
RECURSIVE Stream(_)
Stream(cell) ==
    IF cell.refs = <<>> THEN cell.data ELSE cell.data \o Stream(cell.refs[1])

RECURSIVE Written(_)
Written(cs) ==
    IF cs = <<>> THEN <<>>
    ELSE LET c == cs[Len(cs)]
             rest == Written(SubSeq(cs, 1, Len(cs) - 1))
         IN IF c.ok THEN Append(rest, [cmd |-> c.cmd, len |-> c.bits]) ELSE rest

NoSubtrees == \A i \in 1..Len(calls) : calls[i].op \in {"bitstring", "command"}

OffsetOf(data, i) == SumLen(SubSeq(data, 1, i - 1))

RECURSIVE DbgConsistent(_, _)
DbgConsistent(cell, dbg) ==
    /\ \A i \in 1..Len(cell.data) :
          \E j \in 1..Len(dbg.offsets) :
             dbg.offsets[j] = <<OffsetOf(cell.data, i), cell.data[i].cmd>>
    /\ \A j \in 1..Len(dbg.offsets) :
          \E i \in 1..Len(cell.data) :
             dbg.offsets[j] = <<OffsetOf(cell.data, i), cell.data[i].cmd>>
    /\ Len(dbg.children) = Len(cell.refs)
    /\ \A k \in 1..Len(cell.refs) : DbgConsistent(cell.refs[k], dbg.children[k])

\* C5: after successful writes and finalize, the debug offset recorded for each
\* command is the position of the command's first bit in the final cell that
\* holds it: inlined nodes are shifted by the destination's size before the
\* append, attached nodes keep their own offsets.
C5_DebugOffsets ==
    /\ phase = "done" => DbgConsistent(build(cursor.builder), cursor.dbg)
    /\ phase = "writing" =>
         \A i \in 1..Len(units) : DbgConsistent(build(units[i].builder), units[i].dbg)

C5_Witness ==
    /\ phase = "done"
    /\ steps = <<"inline", "attach">>
    /\ cursor.dbg.children[1].offsets = <<<<0, 2>>, <<8, 3>>>>

\* The payload of the last write call: its token and its child cells
PayloadData == <<[cmd |-> LastCall.cmd, len |-> LastCall.bits]>>

PayloadRefs ==
    [j \in 1..LastCall.refs |-> build(References(LastCall.cmd, LastCall.refs)[j])]

\* The last call stored its payload into the Unit that was last before it
StoredInPlace ==
    LET n == Len(prev)
    IN /\ Len(units) = n
       /\ SubSeq(units, 1, n - 1) = SubSeq(prev, 1, n - 1)
       /\ units[n].builder.data = prev[n].builder.data \o PayloadData
       /\ units[n].builder.refs = prev[n].builder.refs \o PayloadRefs

\* The last call pushed one Unit that holds the payload and nothing else
StoredFresh ==
    LET n == Len(prev)
    IN /\ Len(units) = n + 1
       /\ SubSeq(units, 1, n) = prev
       /\ units[n + 1].builder = [data |-> PayloadData, refs |-> PayloadRefs]

----------------------------------------------------------------------------
(* Instruction model and idiom elaboration (disasm/codedict.rs) *)

\* Instructions of one Code node (top level or nested)
MaxInsns == 3

SliceParam == [kind |-> "slice", code |-> <<>>]

CodeParam(c) == [kind |-> "code", code |-> c]

CodeDictMarker == [kind |-> "marker", code |-> <<>>]

FirstNames == {"DICTPUSHCONST", "PFXDICTSWITCH"}

SecondNames == {"DICTUGETJMP", "DICTUGETJMPZ"}

\* An instruction as the Loader leaves it: the dictionary pushes carry their
\* constant, PUSHCONT carries a nested Code
Insn(name) == [name |-> name, params |-> IF name \in FirstNames THEN <<SliceParam>> ELSE <<>>]

PushCont(c) == [name |-> "PUSHCONT", params |-> <<CodeParam(c)>>]

\* Nested Code offered to the PUSHCONT instructions of the top level
NestedCodes ==
    { <<Insn("DICTPUSHCONST"), Insn("DICTUGETJMP")>>,
      <<Insn("NOP"), Insn("PFXDICTSWITCH"), Insn("DICTUGETJMPZ")>>,
      <<Insn("DICTPUSHCONST"), Insn("DICTUGETJMPZ"),
        PushCont(<<Insn("PFXDICTSWITCH"), Insn("DICTUGETJMP"), Insn("NOP")>>),
        PushCont(<<Insn("DICTUGETJMP"), Insn("DICTPUSHCONST"), Insn("DICTUGETJMP")>>)>> }

TopNames == FirstNames \cup SecondNames \cup {"NOP", "PUSHCONT"}

\* The Code the Loader hands over: every PUSHCONT of the top level holds `nested`
LoadedCode(names, nested) ==
    [i \in 1..Len(names) |->
        IF names[i] = "PUSHCONT" THEN PushCont(nested) ELSE Insn(names[i])]

InputCodes ==
    { LoadedCode(names, nested) :
        names \in UNION {[1..m -> TopNames] : m \in 0..MaxInsns},
        nested \in NestedCodes }

\* A match that does not look at the first instruction's name
match_any_first(pair) ==
    /\ Len(pair) >= 2
    /\ pair[2].name \in SecondNames

\* match_dictpushconst_dictugetjmp: Some(params of the first) or None
match_dictpushconst_dictugetjmp(pair) ==
    /\ Len(pair) >= 2
    /\ pair[2].name \in SecondNames
    /\ pair[1].name \in FirstNames

\* chunks_mut(2): the chunk that starts at (1-based) index i, for odd i
Chunk(c, i) == SubSeq(c, i, IF i + 1 <= Len(c) THEN i + 1 ELSE Len(c))

\* Code::process_dictpushconst_dictugetjmp
process_dictpushconst_dictugetjmp(c) ==
    [i \in 1..Len(c) |->
        IF i % 2 = 1 /\ match_dictpushconst_dictugetjmp(Chunk(c, i))
        THEN [c[i] EXCEPT !.params = Append(@, CodeDictMarker)]
        ELSE c[i]]

\* A path names a nested Code: <<instruction index, parameter index>> per level
RECURSIVE CodeAt(_, _)
CodeAt(c, path) ==
    IF path = <<>> THEN c
    ELSE CodeAt(c[path[1][1]].params[path[1][2]].code, Tail(path))

RECURSIVE SetAt(_, _, _)
SetAt(c, path, new) ==
    IF path = <<>> THEN new
    ELSE [c EXCEPT ![path[1][1]].params[path[1][2]].code = SetAt(@, Tail(path), new)]

\* The Code parameters of instruction i, in parameter order
RECURSIVE ParamPaths(_, _, _, _)
ParamPaths(c, path, i, j) ==
    IF j > Len(c[i].params) THEN <<>>
    ELSE (IF c[i].params[j].kind = "code" THEN <<Append(path, <<i, j>>)>> ELSE <<>>)
         \o ParamPaths(c, path, i, j + 1)

\* `for insn in code.iter_mut() { for param in insn.params_mut() { .. stack.push(inner) } }`
RECURSIVE InnerPaths(_, _, _)
InnerPaths(c, path, i) ==
    IF i > Len(c) THEN <<>>
    ELSE ParamPaths(c, path, i, 1) \o InnerPaths(c, path, i + 1)

InitElab ==
    /\ code \in InputCodes
    /\ code0 = code
    /\ stack = <<>>
    /\ pcE = "loaded"
    /\ WriterIdle /\ DictIdle /\ ExtractIdle

\* traverse_code_tree: `let mut stack = vec![self]`
ElabBegin ==
    /\ pcE = "loaded"
    /\ stack' = << <<>> >>
    /\ pcE' = "traversing"
    /\ UNCHANGED <<code, code0, writerVars, dictVars, extractVars>>

\* traverse_code_tree: one iteration of `while let Some(code) = stack.pop()`
ElabVisit ==
    /\ pcE = "traversing"
    /\ stack # <<>>
    /\ LET path == stack[Len(stack)]
           done == process_dictpushconst_dictugetjmp(CodeAt(code, path))
       IN /\ code' = SetAt(code, path, done)
          /\ stack' = SubSeq(stack, 1, Len(stack) - 1) \o InnerPaths(done, path, 1)
    /\ UNCHANGED <<code0, pcE, writerVars, dictVars, extractVars>>

\* traverse_code_tree: the stack is empty, elaborate_dictpushconst_dictugetjmp returns
ElabEnd ==
    /\ pcE = "traversing"
    /\ stack = <<>>
    /\ pcE' = "elaborated"
    /\ UNCHANGED <<code, code0, stack, writerVars, dictVars, extractVars>>

NextElab == ElabBegin \/ ElabVisit \/ ElabEnd

SpecElab == InitElab /\ [][NextElab]_vars

HasMarker(insn) == \E j \in 1..Len(insn.params) : insn.params[j] = CodeDictMarker

RECURSIVE EveryPairMarked(_)
EveryPairMarked(c) ==
    /\ \A i \in 1..Len(c) - 1 :
          (c[i].name \in FirstNames /\ c[i + 1].name \in SecondNames) => HasMarker(c[i])
    /\ \A i \in 1..Len(c) : \A j \in 1..Len(c[i].params) :
          c[i].params[j].kind = "code" => EveryPairMarked(c[i].params[j].code)

\* C6: after the elaboration, in every Code node at any depth and for every
\* index i, a DICTPUSHCONST or PFXDICTSWITCH directly followed by DICTUGETJMP or
\* DICTUGETJMPZ has gained a CodeDictMarker, whatever the parity of i.
C6_EveryPairMarked == pcE = "elaborated" => EveryPairMarked(code)

RECURSIVE FrameKept(_, _)
FrameKept(c0, c1) ==
    /\ Len(c1) = Len(c0)
    /\ \A i \in 1..Len(c0) :
          LET p0 == c0[i].params
              p1 == c1[i].params
          IN /\ c1[i].name = c0[i].name
             /\ Len(p1) \in {Len(p0), Len(p0) + 1}
             /\ \A j \in 1..Len(p0) :
                   /\ p1[j].kind = p0[j].kind
                   /\ FrameKept(p0[j].code, p1[j].code)
             /\ Len(p1) = Len(p0) + 1 =>
                   /\ p1[Len(p1)] = CodeDictMarker
                   /\ c0[i].name \in FirstNames
                   /\ i < Len(c0)
                   /\ c0[i + 1].name \in SecondNames

\* C7: the elaboration appends at most one CodeDictMarker per instruction, only
\* to a DICTPUSHCONST or PFXDICTSWITCH whose immediate successor in the same
\* Code is DICTUGETJMP or DICTUGETJMPZ, and leaves names, order, count and the
\* earlier parameters of every Code node as they were.
C7_NothingElseChanges == pcE \in {"traversing", "elaborated"} => FrameKept(code0, code)

C7_Witness ==
    /\ pcE = "elaborated"
    /\ Len(code) = 3
    /\ code[1].name = "DICTPUSHCONST" /\ code[2].name = "DICTUGETJMPZ"
    /\ code[1].params = <<SliceParam, CodeDictMarker>>
    /\ code[2].params = <<>>
    /\ code[3].name = "PUSHCONT"
    /\ Len(code[3].params[1].code) = 4
    /\ code[3].params[1].code # code0[3].params[1].code

----------------------------------------------------------------------------
(* The dictionary extractor (disasm/codedict.rs): cells with their bits *)

\* Keys of one dictionary
MaxKeys == 2

\* Key widths offered to DelimitedHashmapE::new
KeySizes == {1, 2}

Cell(bits, refs) == [bits |-> bits, refs |-> refs]

CellX == Cell(<<>>, <<>>)

CellY == Cell(<<1>>, <<>>)

\* Value payloads the dictionaries are built from
Values ==
    { Cell(<<1>>, <<>>), Cell(<<0, 1>>, <<>>), Cell(<<1>>, <<CellX>>), Cell(<<1>>, <<CellY>>) }

\* Targets handed to locate besides the dictionary's own values
ProbeTargets == Values \cup { Cell(<<1, 1, 1>>, <<>>), Cell(<<>>, <<CellX>>) }

\* hml_short: 0, the length in unary, the label's bits
Label(s) == <<0>> \o [i \in 1..Len(s) |-> 1] \o <<0>> \o s

RECURSIVE CommonPrefixLen(_, _)
CommonPrefixLen(ks, n) ==
    IF n = 0 \/ \E k1, k2 \in ks : k1[1] # k2[1] THEN 0
    ELSE 1 + CommonPrefixLen({Tail(k) : k \in ks}, n - 1)

\* A Hashmap node over the entries es = {<<key bits left, value>>}, n key bits left
RECURSIVE HashmapNode(_, _)
HashmapNode(es, n) ==
    IF Cardinality(es) = 1
    THEN LET e == CHOOSE x \in es : TRUE
         IN Cell(Label(e[1]) \o e[2].bits, e[2].refs)
    ELSE LET l == CommonPrefixLen({e[1] : e \in es}, n)
             k == (CHOOSE x \in es : TRUE)[1]
             side(b) == { <<SubSeq(e[1], l + 2, n), e[2]>> : e \in {x \in es : x[1][l + 1] = b} }
         IN Cell(Label(SubSeq(k, 1, l)),
                 <<HashmapNode(side(0), n - l - 1), HashmapNode(side(1), n - l - 1)>>)

\* key_slice.load_uint(key_size)
RECURSIVE load_uint(_)
load_uint(bits) ==
    IF bits = <<>> THEN 0 ELSE 2 * load_uint(SubSeq(bits, 1, Len(bits) - 1)) + bits[Len(bits)]

\* dict_find_bound_owned(Min) then dict_find_owned(next greater): ascending keys
RECURSIVE Ascending(_)
Ascending(es) ==
    IF es = {} THEN <<>>
    ELSE LET m == CHOOSE x \in es : \A y \in es : load_uint(x[1]) <= load_uint(y[1])
         IN <<[id |-> load_uint(m[1]), value |-> m[2]]>> \o Ascending(es \ {m})

\* CellSlice::lex_cmp on the remaining bits of two slices
RECURSIVE lex_cmp(_, _)
lex_cmp(l, r) ==
    IF l = <<>> /\ r = <<>> THEN "Equal"
    ELSE IF l = <<>> THEN "Less"
    ELSE IF r = <<>> THEN "Greater"
    ELSE IF l[1] < r[1] THEN "Less"
    ELSE IF l[1] > r[1] THEN "Greater"
    ELSE lex_cmp(Tail(l), Tail(r))

\* DelimitedHashmapE::slice_eq_data
slice_eq_data(lhs, rhs) == lex_cmp(lhs, rhs) = "Equal"

\* A comparison of the reference counts alone
slice_eq_children_count_only(lhs, rhs) == Len(lhs.refs) = Len(rhs.refs)

\* DelimitedHashmapE::slice_eq_children: same count, same hash at every index
slice_eq_children(lhs, rhs) ==
    /\ Len(lhs.refs) = Len(rhs.refs)
    /\ \A i \in 1..Len(lhs.refs) : lhs.refs[i] = rhs.refs[i]

NotFound == [ok |-> FALSE, path |-> <<>>, offset |-> 0]

\* locate's loop: compare, then load_bit, from offset o until the bits run out
RECURSIVE ScanBits(_, _, _)
ScanBits(cell, target, o) ==
    IF slice_eq_data(SubSeq(cell.bits, o + 1, Len(cell.bits)), target.bits) THEN o
    ELSE IF o >= Len(cell.bits) THEN -1
    ELSE ScanBits(cell, target, o + 1)

\* DelimitedHashmapE::locate; LocateChildren is its `for i in 0..slice.size_refs()`
RECURSIVE locate(_, _, _)
RECURSIVE LocateChildren(_, _, _, _)
locate(cell, target, path) ==
    LET o == IF slice_eq_children(cell, target) THEN ScanBits(cell, target, 0) ELSE -1
    IN IF o >= 0 THEN [ok |-> TRUE, path |-> path, offset |-> o]
       ELSE LocateChildren(cell, target, path, 0)

LocateChildren(cell, target, path, i) ==
    IF i >= Len(cell.refs) THEN NotFound
    ELSE LET v == locate(cell.refs[i + 1], target, Append(path, As_u8(i)))
         IN IF v.ok THEN v ELSE LocateChildren(cell, target, path, i + 1)

\* self.map.insert(loc.0, (id, loc.1, code)): the entry of the path is replaced
MapInsert(m, path, id, offset) ==
    {e \in m : e.path # path} \cup {[path |-> path, id |-> id, offset |-> offset]}

\* The well-formed dictionaries: a key width and a value for each of its keys
Dictionaries ==
    UNION { {ks} \X { f \in UNION { [K -> Values] : K \in SUBSET [1..ks -> {0, 1}] } :
                        DOMAIN f # {} /\ Cardinality(DOMAIN f) <= MaxKeys }
            : ks \in KeySizes }

InitDict ==
    /\ \E d \in Dictionaries :
          LET es == { <<k, d[2][k]>> : k \in DOMAIN d[2] }
          IN /\ dict = HashmapNode(es, d[1])
             /\ entries = Ascending(es)
    /\ map = {}
    /\ marked = 0
    /\ pcM = "new"
    /\ located = <<>>
    /\ WriterIdle /\ ElabIdle /\ ExtractIdle

\* locate(root, target, []) on its own
Locate ==
    /\ pcM = "new"
    /\ \E t \in ProbeTargets :
          located' = [target |-> t, result |-> locate(dict, t, <<>>)]
    /\ UNCHANGED <<dict, entries, map, marked, pcM, writerVars, elabVars, extractVars>>

\* mark: the minimum key is found, the loop is entered
MarkBegin ==
    /\ pcM = "new"
    /\ pcM' = "marking"
    /\ UNCHANGED <<dict, entries, map, marked, located, writerVars, elabVars, extractVars>>

\* mark: one iteration of the loop, to the next key or to the return
MarkKey ==
    /\ pcM = "marking"
    /\ marked < Len(entries)
    /\ LET e == entries[marked + 1]
           loc == locate(dict, e.value, <<>>)
       IN /\ located' = [target |-> e.value, result |-> loc]
          /\ IF ~loc.ok
             THEN pcM' = "not found" /\ UNCHANGED <<map, marked>>
             ELSE /\ map' = MapInsert(map, loc.path, e.id, loc.offset)
                  /\ IF \E x \in map : x.path = loc.path
                     THEN pcM' = "non-unique path" /\ UNCHANGED marked
                     ELSE /\ marked' = marked + 1
                          /\ pcM' = IF marked + 1 = Len(entries) THEN "ok" ELSE "marking"
    /\ UNCHANGED <<dict, entries, writerVars, elabVars, extractVars>>

NextDict == Locate \/ MarkBegin \/ MarkKey

SpecDict == InitDict /\ [][NextDict]_vars

MarkReturned == pcM \in {"ok", "not found", "non-unique path"}

\* C8: mark() on a well-formed dictionary with N distinct keys succeeds with
\* exactly N map entries, one per key, under distinct paths and with the key's
\* id; two keys resolving to one path make it fail with "non-unique path".
C8_MarkUnique ==
    MarkReturned =>
        /\ pcM = "ok"
        /\ Cardinality(map) = Len(entries)
        /\ Cardinality({e.path : e \in map}) = Len(entries)
        /\ \A k \in 1..Len(entries) : \E e \in map : e.id = entries[k].id

\* The cell a path leads to, by reference index
RECURSIVE CellAt(_, _)
CellAt(cell, path) ==
    IF path = <<>> THEN cell ELSE CellAt(cell.refs[path[1] + 1], Tail(path))

\* The paths of a tree in pre-order: a node, then its children by index
RECURSIVE PreOrder(_, _)
RECURSIVE PreOrderFrom(_, _, _)
PreOrder(cell, path) == <<path>> \o PreOrderFrom(cell, path, 0)

PreOrderFrom(cell, path, i) ==
    IF i >= Len(cell.refs) THEN <<>>
    ELSE PreOrder(cell.refs[i + 1], Append(path, i)) \o PreOrderFrom(cell, path, i + 1)

MatchesAt(cell, target, o) ==
    /\ cell.refs = target.refs
    /\ o <= Len(cell.bits)
    /\ SubSeq(cell.bits, o + 1, Len(cell.bits)) = target.bits

Matches(cell, target) == \E o \in 0..Len(cell.bits) : MatchesAt(cell, target, o)

----------------------------------------------------------------------------
(* The Extract sub-command (bin/disasm.rs) *)

\* Cells in the container's pool
MaxCells == 3

\* References of one pool cell in the containers offered
MaxPoolRefs == 2

\* `x as u32`: every integer of the model is below 2^32 and is left as it is
As_u32(n) == n

\* Root options and cell indices offered on the command line
NoRoot == [some |-> FALSE, index |-> 0]

RootArgs == {NoRoot} \cup {[some |-> TRUE, index |-> j] : j \in 0..2}

IndexArgs == {0, 1, 2}

\* root.unwrap_or_default()
unwrap_or_default(root) == IF root.some THEN root.index ELSE 0

\* A pool: cell k (from 0) refers to cells of greater index only; a container
\* stores each cell once, so cells of different index are different cells
Pools ==
    UNION { { p \in [1..n -> UNION {[1..m -> 1..n - 1] : m \in 0..MaxPoolRefs}] :
                \A k \in 1..n : \A r \in 1..Len(p[k]) : p[k][r] > k - 1 }
            : n \in 1..MaxCells }

\* A container: the pool and the root list (distinct pool indices)
Containers ==
    { [pool |-> p, roots |-> rs] :
        <<p, rs>> \in UNION { {p} \X { rs \in UNION {[1..m -> 0..Len(p) - 1] : m \in 1..2} :
                                          \A a, b \in 1..Len(rs) : a # b => rs[a] # rs[b] }
                              : p \in Pools } }

\* ProcessedCells::get(index): the cell of that pool index
cells_get(b, index) ==
    IF index < Len(b.pool) THEN [some |-> TRUE, cell |-> index] ELSE [some |-> FALSE, cell |-> 0]

\* Cell::reference_cloned(index)
reference_cloned(b, cell, index) ==
    IF index < Len(b.pool[cell + 1])
    THEN [some |-> TRUE, cell |-> b.pool[cell + 1][index + 1]]
    ELSE [some |-> FALSE, cell |-> 0]

\* subcommand_extract: the cell written to the output, or the error
subcommand_extract(b, index, root) ==
    LET root_index == unwrap_or_default(root)
        r == cells_get(b, As_u32(root_index))
        c == reference_cloned(b, r.cell, As_u8(index))
    IN IF ~r.some THEN [ok |-> FALSE, cell |-> 0, err |-> "failed to get root"]
       ELSE IF ~c.some THEN [ok |-> FALSE, cell |-> 0, err |-> "failed to get reference"]
       ELSE [ok |-> TRUE, cell |-> c.cell, err |-> ""]

InitExtract ==
    /\ boc \in Containers
    /\ extract = <<>>
    /\ WriterIdle /\ ElabIdle /\ DictIdle

Extract ==
    /\ \E index \in IndexArgs, root \in RootArgs :
          extract' = [index |-> index, root |-> root,
                      result |-> subcommand_extract(boc, index, root)]
    /\ UNCHANGED <<boc, writerVars, elabVars, dictVars>>

NextExtract == Extract

SpecExtract == InitExtract /\ [][NextExtract]_vars

\* C10: Extract with root index j and cell index i writes the i-th child
\* reference of root r_j, the j-th entry of the container's root list, and
\* fails when root j or reference i does not exist.
C10_ExtractChildOfRoot ==
    extract # <<>> =>
        LET j == unwrap_or_default(extract.root)
            i == extract.index
        IN IF j < Len(boc.roots) /\ i < Len(boc.pool[boc.roots[j + 1] + 1])
           THEN /\ extract.result.ok
                /\ extract.result.cell = boc.pool[boc.roots[j + 1] + 1][i + 1]
           ELSE ~extract.result.ok

====
